---- MODULE Spec2Model ----
(***************************************************************************)
(* Sample-tree analysis of gerrypy: plan counting (get_node_info), pruning *)
(* of the sample space (prune_sample_space) and the optimal-plan query     *)
(* (query_tree), over small well-formed sample trees.                      *)
(***************************************************************************)
EXTENDS Integers, Sequences, FiniteSets, TLC

\* ------------------------------------------------------------------ bounds
MaxNodes == 5

MaxOpts == 3

MaxSize == 4

MaxTarget == 3

\* ------------------------------------------------------------- tree inputs
\* A tree over nodes 1..n is a sequence of links: link[i] = <<parent, option>>
\* of node i+1.  Nodes are numbered breadth first, so links are sorted, the
\* options of a parent are numbered 1..k without gaps, and every node other
\* than node 1 is the child of exactly one option of exactly one parent.
NextLinks(l) ==
  LET n == Len(l) + 1
  IN IF l = <<>> THEN {<<1, 1>>}
     ELSE LET last == l[Len(l)]
          IN {<<last[1], o>> : o \in {last[2], last[2] + 1} \cap (1..MaxOpts)}
             \cup {<<p, 1>> : p \in (last[1] + 1)..n}

RECURSIVE LinksOf(_)
LinksOf(n) ==
  IF n = 1 THEN {<<>>}
  ELSE UNION {{Append(l, x) : x \in NextLinks(l)} : l \in LinksOf(n - 1)}

AllLinks == UNION {LinksOf(n) : n \in 2..MaxNodes}

NumOpts(l, p) ==
  LET os == {l[i][2] : i \in {j \in 1..Len(l) : l[j][1] = p}}
  IN IF os = {} THEN 0 ELSE CHOOSE m \in os : \A o \in os : o <= m

\* ascending sequence of the members of a finite set of integers
RECURSIVE SortedSeq(_)
SortedSeq(S) ==
  IF S = {} THEN <<>>
  ELSE LET m == CHOOSE x \in S : \A y \in S : x <= y
       IN <<m>> \o SortedSeq(S \ {m})

ChildrenOf(l) ==
  [p \in 1..(Len(l) + 1) |->
     [k \in 1..NumOpts(l, p) |->
        SortedSeq({i + 1 : i \in {j \in 1..Len(l) : l[j] = <<p, k>>}})]]

RECURSIVE Perms(_)
Perms(S) ==
  IF S = {} THEN {<<>>}
  ELSE UNION {{<<x>> \o p : p \in Perms(S \ {x})} : x \in S}

\* --------------------------------------------------------------- variables
VARIABLES
  children_ids,            \* node id -> its partition options (node.children_ids)
  n_districts,             \* node id -> node.n_districts
  children_ids0,           \* the options of every node as the tree was built
  solution_count,          \* id -> plan count (dict, internal ids only)
  parent_nodes,            \* id -> parent id (dict)
  target_size,
  nodes_by_size,           \* n_districts -> shuffled list of internal nodes
  current_node_prune_size,
  n_skinny_nodes,
  node_ix,                 \* position of the for loop in node_list
  n_passes,                \* passes of the while loop entered so far
  query_vals,              \* the objective vector of the last query_tree call
  query_result,            \* what that call returned
  pc

vars == <<children_ids, n_districts, children_ids0, solution_count,
          parent_nodes, target_size, nodes_by_size, current_node_prune_size,
          n_skinny_nodes, node_ix, n_passes, query_vals, query_result, pc>>

Nodes == DOMAIN children_ids

is_root(n) == n = 1

InternalSet == {n \in Nodes : children_ids0[n] # <<>>}

LeafSet == Nodes \ InternalSet

internal_nodes == SortedSeq(InternalSet)

leaf_nodes == SortedSeq(LeafSet)

root == internal_nodes[1]

\* dict helpers
Put(d, k, v) == [x \in DOMAIN d \cup {k} |-> IF x = k THEN v ELSE d[x]]

Get(d, k, default) == IF k \in DOMAIN d THEN d[k] ELSE default

EmptyDict == [x \in {} |-> 0]

\* ----------------------------------------------------------- get_node_info
\* recursive_compute threads the two dicts it writes through the traversal.
RECURSIVE recursive_compute(_, _, _)
RECURSIVE ComputeSample(_, _, _, _, _, _)
RECURSIVE ComputeSamples(_, _, _, _, _)

\* variant: line 27 adds the child's count instead of multiplying by it
ComputeSampleAdds(ch, cur, sample, i, prod, st) ==
  IF i > Len(sample)
  THEN [ret |-> prod, sc |-> st.sc, pn |-> st.pn, raised |-> "none"]
  ELSE LET child_id == sample[i]
       IN IF child_id \notin DOMAIN ch
          THEN [ret |-> 0, sc |-> st.sc, pn |-> st.pn, raised |-> "KeyError"]
          ELSE LET st1 == [sc |-> st.sc,
                           pn |-> Put(st.pn, child_id, cur)]
                   r == recursive_compute(ch, child_id, st1)
               IN IF r.raised # "none" THEN r
                  ELSE ComputeSample(ch, cur, sample, i + 1, prod + r.ret,
                                     [sc |-> r.sc, pn |-> r.pn])

\* variant: line 26 runs only for the children of the node's last sample
ComputeSampleLastOnly(ch, cur, sample, i, prod, st) ==
  IF i > Len(sample)
  THEN [ret |-> prod, sc |-> st.sc, pn |-> st.pn, raised |-> "none"]
  ELSE LET child_id == sample[i]
       IN IF child_id \notin DOMAIN ch
          THEN [ret |-> 0, sc |-> st.sc, pn |-> st.pn, raised |-> "KeyError"]
          ELSE LET st1 == [sc |-> st.sc,
                           pn |-> IF sample = ch[cur][Len(ch[cur])]
                                  THEN Put(st.pn, child_id, cur) ELSE st.pn]
                   r == recursive_compute(ch, child_id, st1)
               IN IF r.raised # "none" THEN r
                  ELSE ComputeSample(ch, cur, sample, i + 1, prod * r.ret,
                                     [sc |-> r.sc, pn |-> r.pn])

\* inner loop, lines 24-27: children i.. of one sample; line 25 raises
\* KeyError for a child id that is no node of the collection
ComputeSample(ch, cur, sample, i, prod, st) ==
  IF i > Len(sample)
  THEN [ret |-> prod, sc |-> st.sc, pn |-> st.pn, raised |-> "none"]
  ELSE LET child_id == sample[i]
       IN IF child_id \notin DOMAIN ch
          THEN [ret |-> 0, sc |-> st.sc, pn |-> st.pn, raised |-> "KeyError"]
          ELSE LET st1 == [sc |-> st.sc,
                           pn |-> Put(st.pn, child_id, cur)]
                   r == recursive_compute(ch, child_id, st1)
               IN IF r.raised # "none" THEN r
                  ELSE ComputeSample(ch, cur, sample, i + 1, prod * r.ret,
                                     [sc |-> r.sc, pn |-> r.pn])

\* outer loop, lines 22-29: samples k.. of the current node
ComputeSamples(ch, cur, k, total, st) ==
  IF k > Len(ch[cur])
  THEN [ret |-> total, sc |-> st.sc, pn |-> st.pn, raised |-> "none"]
  ELSE LET r == ComputeSample(ch, cur, ch[cur][k], 1, 1, st)
       IN IF r.raised # "none" THEN r
          ELSE ComputeSamples(ch, cur, k + 1, total + r.ret,
                              [sc |-> r.sc, pn |-> r.pn])

\* variant: a leaf is recorded with count 1 before line 20 returns
recursive_compute_records_leaves(ch, cur, st) ==
  IF ch[cur] = <<>>
  THEN [ret |-> 1, sc |-> Put(st.sc, cur, 1), pn |-> st.pn, raised |-> "none"]
  ELSE LET r == ComputeSamples(ch, cur, 1, 0, st)
       IN IF r.raised # "none" THEN r
          ELSE [ret |-> r.ret, sc |-> Put(r.sc, cur, r.ret), pn |-> r.pn,
                raised |-> "none"]

recursive_compute(ch, cur, st) ==
  IF ch[cur] = <<>>
  THEN [ret |-> 1, sc |-> st.sc, pn |-> st.pn, raised |-> "none"]
  ELSE LET r == ComputeSamples(ch, cur, 1, 0, st)
       IN IF r.raised # "none" THEN r
          ELSE [ret |-> r.ret, sc |-> Put(r.sc, cur, r.ret), pn |-> r.pn,
                raised |-> "none"]

get_node_info(ch) ==
  LET r == recursive_compute(ch, root, [sc |-> EmptyDict, pn |-> EmptyDict])
  IN [solution_count |-> r.sc, parent_nodes |-> r.pn, raised |-> r.raised]

\* ------------------------------------------------------ prune_sample_space
RECURSIVE SampleDistrictings(_, _, _)
SampleDistrictings(sc, sample, i) ==
  IF i > Len(sample) THEN 1
  ELSE Get(sc, sample[i], 1) * SampleDistrictings(sc, sample, i + 1)

RECURSIVE SumSamples(_, _, _)
SumSamples(sc, samples, k) ==
  IF k > Len(samples) THEN 0
  ELSE SampleDistrictings(sc, samples[k], 1) + SumSamples(sc, samples, k + 1)

recompute_node_size(ch, sc, node) == SumSamples(sc, ch[node], 1)

RECURSIVE PropagateUp(_, _, _, _)

\* variant: line 79 missing, only the immediate parent is recomputed
PropagateParentOnly(ch, sc, pn, id) ==
  IF id \notin DOMAIN pn THEN sc
  ELSE Put(sc, pn[id], recompute_node_size(ch, sc, pn[id]))

\* lines 76-79: recompute every ancestor up the parent chain
PropagateUp(ch, sc, pn, id) ==
  IF id \notin DOMAIN pn THEN sc
  ELSE LET parent_id == pn[id]
       IN PropagateUp(ch, Put(sc, parent_id, recompute_node_size(ch, sc, parent_id)),
                      pn, parent_id)

\* variant: line 74 folds the children of the last sample into the one
\* before it
DropLastMerges(s) ==
  SubSeq(s, 1, Len(s) - 2) \o <<s[Len(s) - 1] \o s[Len(s)]>>

\* variant: line 74 keeps children_ids[1:], dropping the first sample
DropFirst(s) == SubSeq(s, 2, Len(s))

DropLast(s) == SubSeq(s, 1, Len(s) - 1)

\* variant: line 75 missing, the edited node keeps its count
PruneNodeStaleCount(ch, sc, pn, node) ==
  LET ch1 == [ch EXCEPT ![node] = DropLast(ch[node])]
  IN [children_ids |-> ch1, solution_count |-> PropagateUp(ch1, sc, pn, node)]

\* lines 74-79: one edit of the node
PruneNode(ch, sc, pn, node) ==
  LET ch1 == [ch EXCEPT ![node] = DropLast(ch[node])]
      sc1 == Put(sc, node, recompute_node_size(ch1, sc, node))
  IN [children_ids |-> ch1, solution_count |-> PropagateUp(ch1, sc1, pn, node)]

\* lines 57-62 and 65-66: group by n_districts, then shuffle every group
SizesPresent == {n_districts[n] : n \in InternalSet}

\* variant helper: the largest size that has a group
LargestGroup == CHOOSE m \in SizesPresent : \A s \in SizesPresent : s <= m

GroupOf(s) == {n \in InternalSet : n_districts[n] = s}

Restrict(order, s) == SelectSeq(order, LAMBDA n : n_districts[n] = s)

Shuffles == {[s \in SizesPresent |-> Restrict(order, s)] : order \in Perms(InternalSet)}

\* variant: the groups are taken from the largest size down
NodeListAtDescending(s) == Get(nodes_by_size, LargestGroup + 2 - s, <<>>)

NodeListAt(s) == Get(nodes_by_size, s, <<>>)

\* variant: line 70 walks every internal node, whatever its size
node_list_ungrouped == internal_nodes

node_list == NodeListAt(current_node_prune_size)

\* variant: the target is taken as met one plan too early
TargetMetOffByOne(sc, t) == sc[root] <= t + 1

\* variant: the target is met only when the count is strictly below it
TargetMetStrict(sc, t) == sc[root] < t

\* lines 67 and 71: the test of the root's count against the target
TargetMet(sc, t) == sc[root] <= t

\* more passes than any run of the loop makes; keeps n_passes finite
PassCap == MaxNodes * MaxOpts + MaxSize

\* -------------------------------------------------------------- query_tree
MinVal == 0 - 1

MaxVal == 1

ValueSet == MinVal..MaxVal

NoResult == [ok |-> FALSE, value |-> 0, nodes |-> <<>>, raised |-> "none"]

IndexError == [ok |-> FALSE, value |-> 0, nodes |-> <<>>, raised |-> "IndexError"]

\* line 7: position of a leaf in leaf_nodes, which lists the leaves by
\* ascending id: the number of leaves up to and including this one
id_to_ix(id) == Cardinality({m \in LeafSet : m <= id})

RECURSIVE recursive_query(_, _, _)
RECURSIVE QuerySample(_, _, _, _, _)
RECURSIVE QueryOpts(_, _, _, _)

\* variant: line 24 assigns the child's leaves instead of appending them
QuerySampleAssigns(ch, qv, sample, i, acc) ==
  IF i > Len(sample) THEN acc
  ELSE LET r == recursive_query(ch, qv, sample[i])
       IN IF ~r.ok THEN r
          ELSE QuerySample(ch, qv, sample, i + 1,
                           [acc EXCEPT !.value = acc.value + r.value,
                                       !.nodes = r.nodes])

\* lines 18-24: the children i.. of one sample, accumulated into acc
QuerySample(ch, qv, sample, i, acc) ==
  IF i > Len(sample) THEN acc
  ELSE LET r == recursive_query(ch, qv, sample[i])
       IN IF ~r.ok THEN r
          ELSE QuerySample(ch, qv, sample, i + 1,
                           [acc EXCEPT !.value = acc.value + r.value,
                                       !.nodes = acc.nodes \o r.nodes])

\* lines 16-26: node_opts for the samples k.. of the node
QueryOpts(ch, qv, cur, k) ==
  IF k > Len(ch[cur]) THEN <<>>
  ELSE <<QuerySample(ch, qv, ch[cur][k], 1,
                     [ok |-> TRUE, value |-> 0, nodes |-> <<>>, raised |-> "none"])>>
       \o QueryOpts(ch, qv, cur, k + 1)

RECURSIVE MaxByValue(_, _, _)
RECURSIVE MaxByValueLastMax(_, _, _)

\* variant: line 28 keeps the last maximal entry of node_opts
MaxByValueLastMax(opts, k, best) ==
  IF k > Len(opts) THEN best
  ELSE MaxByValueLastMax(opts, k + 1,
                         IF opts[k].value >= best.value THEN opts[k] ELSE best)

\* variant: line 28 returns the first entry of node_opts
FirstEntry(opts, k, best) == opts[1]

\* variant: line 28 returns the last entry of node_opts
LastEntry(opts, k, best) == opts[Len(opts)]

\* line 28: max(node_opts, key=lambda x: x[0]) keeps the first maximal entry
MaxByValue(opts, k, best) ==
  IF k > Len(opts) THEN best
  ELSE MaxByValue(opts, k + 1,
                  IF opts[k].value > best.value THEN opts[k] ELSE best)

\* variant: line 14 reads 0 for a leaf without an entry in query_vals
recursive_query_or_zero(ch, qv, cur) ==
  IF ch[cur] = <<>>
  THEN [ok |-> TRUE,
        value |-> IF id_to_ix(cur) \in 1..Len(qv) THEN qv[id_to_ix(cur)] ELSE 0,
        nodes |-> <<cur>>, raised |-> "none"]
  ELSE LET node_opts == QueryOpts(ch, qv, cur, 1)
       IN MaxByValue(node_opts, 2, node_opts[1])

recursive_query(ch, qv, cur) ==
  IF ch[cur] = <<>>
  THEN IF id_to_ix(cur) \in 1..Len(qv)
       THEN [ok |-> TRUE, value |-> qv[id_to_ix(cur)], nodes |-> <<cur>>,
             raised |-> "none"]
       ELSE IndexError
  ELSE LET node_opts == QueryOpts(ch, qv, cur, 1)
       IN IF \E k \in 1..Len(node_opts) : ~node_opts[k].ok
          THEN IndexError
          ELSE MaxByValue(node_opts, 2, node_opts[1])

query_tree(ch, qv) == recursive_query(ch, qv, root)

QueryValsSet ==
  UNION {[1..n -> ValueSet] :
           n \in {m \in {Len(leaf_nodes) - 1, Len(leaf_nodes)} : m >= 1}}

\* ------------------------------------------------------------------- init
\* the tree of links l as loaded, nd giving n_districts of its internal nodes
LoadedTree(ch, nd) ==
  /\ children_ids = ch
  /\ children_ids0 = ch
  /\ n_districts = [n \in DOMAIN ch |-> Get(nd, n, 1)]
  /\ solution_count = EmptyDict
  /\ parent_nodes = EmptyDict
  /\ target_size = 0
  /\ nodes_by_size = EmptyDict
  /\ current_node_prune_size = 0
  /\ n_skinny_nodes = 0
  /\ node_ix = 0
  /\ n_passes = 0
  /\ query_vals = <<>>
  /\ query_result = NoResult
  /\ pc = "start"

Loaded(l, nd) == LoadedTree(ChildrenOf(l), nd)

ParentsIn(l) == {l[i][1] : i \in 1..Len(l)}

Init ==
  \E l \in AllLinks : \E nd \in [ParentsIn(l) -> 2..MaxSize] : Loaded(l, nd)

\* query_tree never reads n_districts: every internal node of a queried
\* tree carries the smallest size, 2
QueryInit ==
  \E l \in AllLinks : Loaded(l, [n \in ParentsIn(l) |-> 2])

\* the trees that are pruned and then queried: one node fewer than MaxNodes
PrunedQueryInit ==
  \E l \in {x \in AllLinks : Len(x) + 2 <= MaxNodes} :
    \E nd \in [ParentsIn(l) -> 2..MaxSize] : Loaded(l, nd)

\* the tree of the scenario with child counts 4, 9 and 2: the root has three
\* samples of one child each, and every child has one sample per plan, each
\* of one leaf
ScenarioCounts == <<4, 9, 2>>

ScenarioTree ==
  [n \in 1..19 |->
     IF n = 1 THEN <<<<2>>, <<3>>, <<4>>>>
     ELSE IF n = 2 THEN [k \in 1..ScenarioCounts[1] |-> <<4 + k>>]
     ELSE IF n = 3 THEN [k \in 1..ScenarioCounts[2] |-> <<8 + k>>]
     ELSE IF n = 4 THEN [k \in 1..ScenarioCounts[3] |-> <<17 + k>>]
     ELSE <<>>]

\* the tree of the scenario with leaves A, B, C (nodes 2, 3, 4): the root has
\* the samples [A, B] and [C]
ScenarioLeavesTree ==
  [n \in 1..4 |-> IF n = 1 THEN <<<<2, 3>>, <<4>>>> ELSE <<>>]

\* the objective of the scenario and its rearrangements
ScenarioObjective == <<3, 5, 10>>

ScenarioObjectives ==
  [1..3 -> {ScenarioObjective[i] : i \in 1..3}]

\* in the first scenario the root has region size 3 and the children any
\* size from 2 to the root's; in the second the root has region size 2
ScenarioInit ==
  \/ \E nd \in [{2, 3, 4} -> 2..3] : LoadedTree(ScenarioTree, Put(nd, 1, 3))
  \/ LoadedTree(ScenarioLeavesTree, Put(EmptyDict, 1, 2))

\* a tree with two branches that both have a choice: the root has the
\* samples [2] and [3], and nodes 2 and 3 have two samples of one leaf each
TwoBranchTree ==
  [n \in 1..7 |->
     IF n = 1 THEN <<<<2>>, <<3>>>>
     ELSE IF n = 2 THEN <<<<4>>, <<5>>>>
     ELSE IF n = 3 THEN <<<<6>>, <<7>>>>
     ELSE <<>>]

TwoBranchInit ==
  \E nd \in [{1, 2, 3} -> 2..MaxSize] : LoadedTree(TwoBranchTree, nd)

\* a pickled tree whose children_ids are not those of a tree: one sample of
\* one node lists one id more, either a node that already is the child of a
\* sample (a shared subtree) or an id that is no node of the collection
ExtraChild(l, p, k, c) ==
  [ChildrenOf(l) EXCEPT ![p] = [@ EXCEPT ![k] = Append(@, c)]]

MalformedInit ==
  \E l \in AllLinks : \E p \in ParentsIn(l) : \E k \in 1..NumOpts(l, p) :
    \E c \in (p + 1)..(Len(l) + 2) :
      /\ \A i \in 1..Len(ChildrenOf(l)[p][k]) : ChildrenOf(l)[p][k][i] # c
      /\ LoadedTree(ExtraChild(l, p, k, c), [n \in ParentsIn(l) |-> 2])

\* ---------------------------------------------------------------- actions
\* pnas.py line 178
GetNodeInfo ==
  /\ pc = "start"
  /\ LET r == get_node_info(children_ids)
     IN /\ r.raised = "none"
        /\ solution_count' = r.solution_count
        /\ parent_nodes' = r.parent_nodes
  /\ pc' = "counted"
  /\ UNCHANGED <<children_ids, n_districts, children_ids0, target_size,
                 nodes_by_size, current_node_prune_size, n_skinny_nodes,
                 node_ix, n_passes, query_vals, query_result>>

\* pnas.py line 178, when line 25 of subsample.py raises: nothing is returned
GetNodeInfoKeyError ==
  /\ pc = "start"
  /\ get_node_info(children_ids).raised = "KeyError"
  /\ pc' = "key_error"
  /\ UNCHANGED <<children_ids, n_districts, children_ids0, solution_count,
                 parent_nodes, target_size, nodes_by_size,
                 current_node_prune_size, n_skinny_nodes, node_ix, n_passes,
                 query_vals, query_result>>

\* subsample.py lines 51-53: assert target_size > 0 fails
PruneBadTarget ==
  /\ pc = "counted"
  /\ is_root(root)
  /\ \E t \in 0..MaxTarget :
       /\ ~(t > 0)
       /\ target_size' = t
  /\ pc' = "assertion_error"
  /\ UNCHANGED <<children_ids, n_districts, children_ids0, solution_count,
                 parent_nodes, nodes_by_size, current_node_prune_size,
                 n_skinny_nodes, node_ix, n_passes, query_vals, query_result>>

\* variant: the assertion of line 53 is not made
PruneEntryNoAssert ==
  /\ pc = "counted"
  /\ is_root(root)
  /\ \E t \in 0..MaxTarget : target_size' = t
  /\ \E sh \in Shuffles : nodes_by_size' = sh
  /\ current_node_prune_size' = 2
  /\ pc' = "while"
  /\ UNCHANGED <<children_ids, n_districts, children_ids0, solution_count,
                 parent_nodes, n_skinny_nodes, node_ix, n_passes, query_vals, query_result>>

\* subsample.py lines 51-66, called with target_size = t
PruneCall(t) ==
  /\ pc = "counted"
  /\ is_root(root)
  /\ t > 0
  /\ target_size' = t
  /\ \E sh \in Shuffles : nodes_by_size' = sh
  /\ current_node_prune_size' = 2
  /\ pc' = "while"
  /\ UNCHANGED <<children_ids, n_districts, children_ids0, solution_count,
                 parent_nodes, n_skinny_nodes, node_ix, n_passes, query_vals, query_result>>

PruneEntry == \E t \in 0..MaxTarget : PruneCall(t)

\* line 67 true, lines 68-69
WhileEnter ==
  /\ pc = "while"
  /\ ~TargetMet(solution_count, target_size)
  /\ n_passes < PassCap
  /\ n_skinny_nodes' = 0
  /\ node_ix' = 1
  /\ n_passes' = n_passes + 1
  /\ pc' = "for"
  /\ UNCHANGED <<children_ids, n_districts, children_ids0, solution_count,
                 parent_nodes, target_size, nodes_by_size,
                 current_node_prune_size, query_vals, query_result>>

\* line 67 false, line 84
WhileExit ==
  /\ pc = "while"
  /\ TargetMet(solution_count, target_size)
  /\ pc' = "done"
  /\ UNCHANGED <<children_ids, n_districts, children_ids0, solution_count,
                 parent_nodes, target_size, nodes_by_size,
                 current_node_prune_size, n_skinny_nodes, node_ix, n_passes, query_vals, query_result>>

\* lines 71-72
ForBreak ==
  /\ pc = "for"
  /\ node_ix <= Len(node_list)
  /\ TargetMet(solution_count, target_size)
  /\ pc' = "endfor"
  /\ UNCHANGED <<children_ids, n_districts, children_ids0, solution_count,
                 parent_nodes, target_size, nodes_by_size,
                 current_node_prune_size, n_skinny_nodes, node_ix, n_passes, query_vals, query_result>>

\* variant: line 73 tests for at least one option
ForPruneAnyOption ==
  /\ pc = "for"
  /\ node_ix <= Len(node_list)
  /\ ~TargetMet(solution_count, target_size)
  /\ Len(children_ids[node_list[node_ix]]) >= 1
  /\ LET r == PruneNode(children_ids, solution_count, parent_nodes,
                        node_list[node_ix])
     IN /\ children_ids' = r.children_ids
        /\ solution_count' = r.solution_count
  /\ node_ix' = node_ix + 1
  /\ UNCHANGED <<n_districts, children_ids0, parent_nodes, target_size,
                 nodes_by_size, current_node_prune_size, n_skinny_nodes,
                 n_passes, query_vals, query_result, pc>>

\* variant: lines 71-72 missing, a node is edited whatever the root's count
ForPruneIgnoresTarget ==
  /\ pc = "for"
  /\ node_ix <= Len(node_list)
  /\ Len(children_ids[node_list[node_ix]]) > 1
  /\ LET r == PruneNode(children_ids, solution_count, parent_nodes,
                        node_list[node_ix])
     IN /\ children_ids' = r.children_ids
        /\ solution_count' = r.solution_count
  /\ node_ix' = node_ix + 1
  /\ UNCHANGED <<n_districts, children_ids0, parent_nodes, target_size,
                 nodes_by_size, current_node_prune_size, n_skinny_nodes,
                 n_passes, query_vals, query_result, pc>>

\* variant: line 74 removes an option drawn at random instead of the last
ForPruneRandomOption ==
  /\ pc = "for"
  /\ node_ix <= Len(node_list)
  /\ ~TargetMet(solution_count, target_size)
  /\ Len(children_ids[node_list[node_ix]]) > 1
  /\ \E k \in 1..Len(children_ids[node_list[node_ix]]) :
       LET node == node_list[node_ix]
           kept == [j \in 1..(Len(children_ids[node]) - 1) |->
                      children_ids[node][IF j < k THEN j ELSE j + 1]]
           ch1 == [children_ids EXCEPT ![node] = kept]
           sc1 == Put(solution_count, node,
                      recompute_node_size(ch1, solution_count, node))
       IN /\ children_ids' = ch1
          /\ solution_count' = PropagateUp(ch1, sc1, parent_nodes, node)
  /\ node_ix' = node_ix + 1
  /\ UNCHANGED <<n_districts, children_ids0, parent_nodes, target_size,
                 nodes_by_size, current_node_prune_size, n_skinny_nodes,
                 n_passes, query_vals, query_result, pc>>

\* lines 73-79
ForPrune ==
  /\ pc = "for"
  /\ node_ix <= Len(node_list)
  /\ ~TargetMet(solution_count, target_size)
  /\ Len(children_ids[node_list[node_ix]]) > 1
  /\ LET r == PruneNode(children_ids, solution_count, parent_nodes,
                        node_list[node_ix])
     IN /\ children_ids' = r.children_ids
        /\ solution_count' = r.solution_count
  /\ node_ix' = node_ix + 1
  /\ UNCHANGED <<n_districts, children_ids0, parent_nodes, target_size,
                 nodes_by_size, current_node_prune_size, n_skinny_nodes,
                 n_passes, query_vals, query_result, pc>>

\* variant: line 81 missing, skinny nodes are not counted
ForSkinnyUncounted ==
  /\ pc = "for"
  /\ node_ix <= Len(node_list)
  /\ ~TargetMet(solution_count, target_size)
  /\ ~(Len(children_ids[node_list[node_ix]]) > 1)
  /\ node_ix' = node_ix + 1
  /\ UNCHANGED <<children_ids, n_districts, children_ids0, solution_count,
                 parent_nodes, target_size, nodes_by_size, n_skinny_nodes,
                 current_node_prune_size, n_passes, query_vals,
                 query_result, pc>>

\* lines 80-81
ForSkinny ==
  /\ pc = "for"
  /\ node_ix <= Len(node_list)
  /\ ~TargetMet(solution_count, target_size)
  /\ ~(Len(children_ids[node_list[node_ix]]) > 1)
  /\ n_skinny_nodes' = n_skinny_nodes + 1
  /\ node_ix' = node_ix + 1
  /\ UNCHANGED <<children_ids, n_districts, children_ids0, solution_count,
                 parent_nodes, target_size, nodes_by_size,
                 current_node_prune_size, n_passes, query_vals,
                 query_result, pc>>

\* line 70: node_list exhausted
ForEnd ==
  /\ pc = "for"
  /\ node_ix > Len(node_list)
  /\ pc' = "endfor"
  /\ UNCHANGED <<children_ids, n_districts, children_ids0, solution_count,
                 parent_nodes, target_size, nodes_by_size,
                 current_node_prune_size, n_skinny_nodes, node_ix, n_passes, query_vals, query_result>>

\* variant: line 82 compares against the group only when it has nodes
PassEndSkipsEmpty ==
  /\ pc = "endfor"
  /\ current_node_prune_size' =
       IF n_skinny_nodes = Len(node_list) /\ Len(node_list) > 0
       THEN current_node_prune_size + 1
       ELSE current_node_prune_size
  /\ pc' = "while"
  /\ UNCHANGED <<children_ids, n_districts, children_ids0, solution_count,
                 parent_nodes, target_size, nodes_by_size, n_skinny_nodes,
                 node_ix, n_passes, query_vals, query_result>>

\* lines 82-83
PassEnd ==
  /\ pc = "endfor"
  /\ current_node_prune_size' =
       IF n_skinny_nodes = Len(node_list)
       THEN current_node_prune_size + 1
       ELSE current_node_prune_size
  /\ pc' = "while"
  /\ UNCHANGED <<children_ids, n_districts, children_ids0, solution_count,
                 parent_nodes, target_size, nodes_by_size, n_skinny_nodes,
                 node_ix, n_passes, query_vals, query_result>>

\* tree.py lines 5-30, called on the tree as built or as pruned
\* variant: the query keeps only the first sample of the root
QueryCallTrimsRoot(qv) ==
  /\ pc \in {"start", "done"}
  /\ query_vals' = qv
  /\ query_result' = query_tree(children_ids, qv)
  /\ children_ids' = [children_ids EXCEPT ![root] = <<@[1]>>]
  /\ pc' = "queried"
  /\ UNCHANGED <<n_districts, children_ids0, solution_count,
                 parent_nodes, target_size, nodes_by_size,
                 current_node_prune_size, n_skinny_nodes, node_ix, n_passes>>

QueryCall(qv) ==
  /\ pc \in {"start", "done"}
  /\ query_vals' = qv
  /\ query_result' = query_tree(children_ids, qv)
  /\ pc' = "queried"
  /\ UNCHANGED <<children_ids, n_districts, children_ids0, solution_count,
                 parent_nodes, target_size, nodes_by_size,
                 current_node_prune_size, n_skinny_nodes, node_ix, n_passes>>

QueryTree == \E qv \in QueryValsSet : QueryCall(qv)

PruneStep ==
  \/ WhileEnter
  \/ WhileExit
  \/ ForBreak
  \/ ForPrune
  \/ ForSkinny
  \/ ForEnd
  \/ PassEnd

Next ==
  \/ GetNodeInfo
  \/ PruneBadTarget
  \/ PruneEntry
  \/ PruneStep

Spec == Init /\ [][Next]_vars

\* the scenario trees pruned to 1, 11 or 13 plans, and the tree with three
\* leaves queried for an objective of the scenario
ScenarioTargets == {1, 11, 13}

ScenarioPrune == \E t \in ScenarioTargets : PruneCall(t)

ScenarioQuery ==
  /\ Len(leaf_nodes) = 3
  /\ \E qv \in ScenarioObjectives : QueryCall(qv)

ScenarioNext ==
  \/ GetNodeInfo
  \/ ScenarioPrune
  \/ PruneStep
  \/ ScenarioQuery

ScenarioSpec == ScenarioInit /\ [][ScenarioNext]_vars

\* counting and pruning of the tree with two branches
TwoBranchSpec == TwoBranchInit /\ [][Next]_vars

\* get_node_info on a collection that is not a tree
MalformedNext ==
  \/ GetNodeInfo
  \/ GetNodeInfoKeyError

MalformedSpec == MalformedInit /\ [][MalformedNext]_vars

\* queries of the tree before and after pruning
PrunedQueryNext ==
  \/ Next
  \/ QueryTree

PrunedQuerySpec == PrunedQueryInit /\ [][PrunedQueryNext]_vars

\* queries of the tree as built
QueryNext == QueryTree

QuerySpec == QueryInit /\ [][QueryNext]_vars

\* ================================================================= claims
\* ----------------------------------------------------- reference notions
\* every complete plan below a node, as the set of the leaves it selects,
\* by brute-force expansion: one option per internal node visited
RECURSIVE Plans(_, _)
RECURSIVE OptionPlans(_, _, _)
OptionPlans(ch, sample, i) ==
  IF i > Len(sample) THEN {{}}
  ELSE {a \cup b : a \in Plans(ch, sample[i]), b \in OptionPlans(ch, sample, i + 1)}

Plans(ch, n) ==
  IF ch[n] = <<>> THEN {{n}}
  ELSE UNION {OptionPlans(ch, ch[n][k], 1) : k \in 1..Len(ch[n])}

\* plan count of a node from scratch: leaves 1, options add, children multiply
RECURSIVE PlanCount(_, _)
RECURSIVE OptionCount(_, _, _)
OptionCount(ch, sample, i) ==
  IF i > Len(sample) THEN 1
  ELSE PlanCount(ch, sample[i]) * OptionCount(ch, sample, i + 1)

RECURSIVE OptionsCount(_, _, _)
OptionsCount(ch, n, k) ==
  IF k > Len(ch[n]) THEN 0
  ELSE OptionCount(ch, ch[n][k], 1) + OptionsCount(ch, n, k + 1)

PlanCount(ch, n) == IF ch[n] = <<>> THEN 1 ELSE OptionsCount(ch, n, 1)

\* the nodes below a node in the current tree, the node included
RECURSIVE Below(_, _)
Below(ch, n) ==
  {n} \cup UNION {UNION {Below(ch, ch[n][k][i]) : i \in 1..Len(ch[n][k])} :
                    k \in 1..Len(ch[n])}

RECURSIVE SumOfValues(_, _)
SumOfValues(qv, S) ==
  IF S = {} THEN 0
  ELSE LET x == CHOOSE y \in S : TRUE
       IN qv[id_to_ix(x)] + SumOfValues(qv, S \ {x})

RECURSIVE SumOfSeq(_, _, _)
SumOfSeq(qv, ids, i) ==
  IF i > Len(ids) THEN 0
  ELSE qv[id_to_ix(ids[i])] + SumOfSeq(qv, ids, i + 1)

RECURSIVE SurplusOf(_)
SurplusOf(S) ==
  IF S = {} THEN 0
  ELSE LET x == CHOOSE y \in S : TRUE
       IN (Len(children_ids0[x]) - 1) + SurplusOf(S \ {x})

\* sum over the internal nodes of (initial option count - 1)
InitialSurplus == SurplusOf(InternalSet)

LargestSize == CHOOSE m \in SizesPresent : \A s \in SizesPresent : s <= m

InPrune == pc \in {"while", "for", "endfor", "done"}

SomethingRemoved == children_ids # children_ids0

CountBefore == get_node_info(children_ids0).solution_count[root]

\* ---------------------------------------------------------------------
\* C1: when prune_sample_space returns, the root's plan count is at most the
\* target, in the count table kept during pruning and in the table that
\* get_node_info computes from scratch on the pruned tree.
C1_RootWithinTarget ==
  pc = "done" =>
    /\ solution_count[root] <= target_size
    /\ get_node_info(children_ids).solution_count[root] <= target_size

C1_Witness ==
  /\ pc = "done"
  /\ SomethingRemoved
  /\ target_size >= 2
  /\ solution_count[root] < target_size
  /\ CountBefore > target_size

\* options that removals could still take, over all internal nodes
RECURSIVE OptionSurplusOf(_)
OptionSurplusOf(S) ==
  IF S = {} THEN 0
  ELSE LET x == CHOOSE y \in S : TRUE
       IN (Len(children_ids[x]) - 1) + OptionSurplusOf(S \ {x})

\* options removed so far in the current pass: nodes visited and not skinny
RemovedInPass ==
  IF pc \in {"for", "endfor"} THEN (node_ix - 1) - n_skinny_nodes ELSE 0

\* a measure of the work the loop has left: the options that were removable
\* and the sizes still to visit when the current pass began, then the
\* position inside the pass
PassWidth == Cardinality(InternalSet) + 4

PassesLeft ==
  OptionSurplusOf(InternalSet) + RemovedInPass
    + (LargestSize + 1 - current_node_prune_size)

StepsLeftInPass ==
  CASE pc = "while" -> PassWidth - 1
    [] pc = "for" -> 2 + (Len(node_list) + 1 - node_ix)
    [] pc = "endfor" -> 1
    [] OTHER -> 0

Rank == PassesLeft * PassWidth + StepsLeftInPass

InLoop == pc \in {"while", "for", "endfor"}

\* in the loop the next step is always there: the while test either ends
\* the loop or enters a pass, a pass visits its nodes, and a pass ends
LoopCanStep ==
  /\ (pc = "while") => (TargetMet(solution_count, target_size) \/ ENABLED WhileEnter)
  /\ (pc = "for") => ENABLED (ForEnd \/ ForBreak \/ ForSkinny \/ ForPrune)
  /\ (pc = "endfor") => ENABLED PassEnd

\* C2: the pruning loop terminates for every tree and every target >= 1:
\* every step of the loop strictly decreases a measure that never goes
\* below zero, and the loop can always take a step until it has returned.
C2_Terminates ==
  /\ [][InLoop => (Rank' >= 0 /\ Rank' < Rank)]_vars
  /\ []LoopCanStep

\* the worst case: every internal node is down to one option, root count 1
C2_Witness ==
  /\ pc = "done"
  /\ InitialSurplus >= 2
  /\ \A n \in InternalSet : Len(children_ids[n]) = 1
  /\ solution_count[root] = 1
  /\ n_passes >= 3

\* C3: in every state of pruning every internal node keeps at least one
\* partition option.
C3_KeepsLastOption == \A n \in InternalSet : Len(children_ids[n]) >= 1

C3_Witness ==
  /\ pc = "for"
  /\ n_skinny_nodes >= 1
  /\ \E n \in InternalSet :
       /\ Len(children_ids0[n]) >= 2
       /\ Len(children_ids[n]) = 1
       /\ n_districts[n] = current_node_prune_size

\* C4: after every edit the count table agrees with the mutated tree: the
\* count of every internal node is the sum over its current options of the
\* product of its children's counts, leaves counting 1.
C4_CountsConsistent ==
  InPrune =>
    \A n \in InternalSet :
      /\ n \in DOMAIN solution_count
      /\ solution_count[n] = PlanCount(children_ids, n)

\* an edit two levels below the root has been propagated
C4_Witness ==
  /\ pc = "for"
  /\ \E n \in InternalSet :
       /\ Len(children_ids[n]) < Len(children_ids0[n])
       /\ n \in DOMAIN parent_nodes
       /\ parent_nodes[n] \in DOMAIN parent_nodes
       /\ solution_count[root] < CountBefore

\* C5: the root count returned by get_node_info is the number of complete
\* plans found by brute-force expansion, each plan being its set of leaves.
C5_CountIsPlanCardinality ==
  pc = "counted" => solution_count[root] = Cardinality(Plans(children_ids, root))

C5_Witness ==
  /\ pc = "counted"
  /\ solution_count[root] >= 2
  /\ \E k \in 1..Len(children_ids[root]) :
       \E i \in 1..Len(children_ids[root][k]) :
         /\ Len(children_ids[root][k]) >= 2
         /\ Len(children_ids[children_ids[root][k][i]]) >= 2

\* C6: the value returned by query_tree is the maximum, over all complete
\* plans of the tree, of the sum of the objective over the plan's leaves.
C6_ValueIsMaximum ==
  (pc = "queried" /\ query_result.ok) =>
    /\ \E P \in Plans(children_ids, root) :
         SumOfValues(query_vals, P) = query_result.value
    /\ \A P \in Plans(children_ids, root) :
         SumOfValues(query_vals, P) <= query_result.value

\* the maximum is attained below a later option of a tree two levels deep
C6_Witness ==
  /\ pc = "queried"
  /\ query_result.ok
  /\ Len(children_ids[root]) >= 2
  /\ \E n \in InternalSet \ {root} : Len(children_ids[n]) >= 2
  /\ \A P \in OptionPlans(children_ids, children_ids[root][1], 1) :
       SumOfValues(query_vals, P) < query_result.value

\* C7: the leaves returned by query_tree form a complete plan of the tree,
\* and the objective summed over them is the returned value.
C7_LeavesFormPlan ==
  (pc = "queried" /\ query_result.ok) =>
    LET ids == query_result.nodes
        S == {ids[i] : i \in 1..Len(ids)}
    IN /\ S \in Plans(children_ids, root)
       /\ Cardinality(S) = Len(ids)
       /\ SumOfSeq(query_vals, ids, 1) = query_result.value

C7_Witness ==
  /\ pc = "queried"
  /\ query_result.ok
  /\ Len(query_result.nodes) >= 2
  /\ Cardinality(Plans(children_ids, root)) >= 2
  /\ \E n \in InternalSet \ {root} :
       \E i \in 1..Len(query_result.nodes) :
         /\ Len(children_ids[n]) >= 2
         /\ query_result.nodes[i] \in Below(children_ids, n)

\* C8: when the target is at least the root's plan count at the call,
\* pruning removes no option: every option list and every count stays as
\* it was.
C8_NoOpPruning ==
  (InPrune /\ target_size >= CountBefore) =>
    /\ children_ids = children_ids0
    /\ solution_count = get_node_info(children_ids0).solution_count

C8_Witness ==
  /\ pc = "done"
  /\ target_size = CountBefore
  /\ CountBefore >= 2
  /\ \E n \in InternalSet \ {root} : Len(children_ids[n]) >= 2

\* C9 as stated: the passes of the while loop never exceed the initial
\* surplus of options plus the number of distinct n_districts groups.
C9_PassesWithinGroupCount ==
  n_passes <= InitialSurplus + Cardinality(SizesPresent)

\* C9 as amended: the passes never exceed the initial surplus of options
\* plus the number of sizes from 2 up to the largest n_districts of an
\* internal node, sizes without any node included.
C9_PassesWithinSizeRange ==
  n_passes <= InitialSurplus + (LargestSize - 1)

\* passes spent on sizes that no node has
C9_Witness ==
  /\ pc = "done"
  /\ SomethingRemoved
  /\ n_passes > InitialSurplus + Cardinality(SizesPresent)

\* C10 as stated: the parent map recomputed on the pruned tree equals the
\* one carried through pruning.
C10_ParentMapEqual ==
  pc = "done" => get_node_info(children_ids).parent_nodes = parent_nodes

\* C10 as amended: the recomputed parent map agrees with the carried one on
\* every node still reachable from the root and covers exactly those nodes;
\* the carried map keeps the entries of the nodes detached by a removed
\* option, and the two maps are equal when nothing was removed.
C10_ParentMapAgrees ==
  pc = "done" =>
    LET recomputed == get_node_info(children_ids).parent_nodes
    IN /\ DOMAIN recomputed = Below(children_ids, root) \ {root}
       /\ DOMAIN recomputed \subseteq DOMAIN parent_nodes
       /\ \A n \in DOMAIN recomputed : recomputed[n] = parent_nodes[n]
       /\ (~SomethingRemoved) => recomputed = parent_nodes

\* an internal node with its subtree was detached by a removal
C10_Witness ==
  /\ pc = "done"
  /\ \E n \in InternalSet :
       /\ n \notin Below(children_ids, root)
       /\ n \in DOMAIN parent_nodes
       /\ n \notin DOMAIN get_node_info(children_ids).parent_nodes

\* ---------------------------------------------------------------------
\* positions of the samples of a collection: node, sample, place
Places(ch) ==
  {pl \in (DOMAIN ch) \X (1..MaxOpts) \X (1..(MaxNodes + 1)) :
     /\ pl[2] <= Len(ch[pl[1]])
     /\ pl[3] <= Len(ch[pl[1]][pl[2]])}

ChildAt(ch, pl) == ch[pl[1]][pl[2]][pl[3]]

\* some node is the child of samples of two nodes
SharedChild(ch) ==
  \E a \in Places(ch) : \E b \in Places(ch) :
    a[1] # b[1] /\ ChildAt(ch, a) = ChildAt(ch, b)

\* some child id is no node of the collection
DanglingChild(ch) ==
  \E a \in Places(ch) : ChildAt(ch, a) \notin DOMAIN ch

\* C11: get_node_info fails and returns no counts when a child id already
\* has a recorded parent (a shared subtree) and when a child id resolves to
\* no node. The code has no check of the first kind: on a shared subtree it
\* returns counts and keeps the parent written last.
C11_MalformedTreeRejected ==
  (pc # "start" /\ (SharedChild(children_ids0) \/ DanglingChild(children_ids0)))
    => (pc = "key_error" /\ solution_count = EmptyDict
                         /\ parent_nodes = EmptyDict)

\* the half of C11 the code has: an unresolved child id ends the call with
\* KeyError and nothing returned
C11_DanglingChildRaises ==
  (pc # "start" /\ DanglingChild(children_ids0))
    => (pc = "key_error" /\ solution_count = EmptyDict
                         /\ parent_nodes = EmptyDict)

\* C12: prune with a target below 1 fails before it removes any option:
\* the call ends in the assertion error with the tree and the count table
\* as they were, and no state of the pruning loop has a target below 1.
C12_BadTargetChangesNothing ==
  /\ pc = "assertion_error" =>
       /\ target_size < 1
       /\ children_ids = children_ids0
       /\ solution_count = get_node_info(children_ids0).solution_count
       /\ parent_nodes = get_node_info(children_ids0).parent_nodes
  /\ target_size < 1 => (~InPrune /\ ~SomethingRemoved)

\* the call failed on a tree that had options to remove
C12_Witness ==
  /\ pc = "assertion_error"
  /\ CountBefore >= 2
  /\ \E n \in InternalSet : Len(children_ids[n]) >= 2

\* the leaves the root still reaches
ReachableLeaves == Below(children_ids, root) \cap LeafSet

\* the reachable leaves without an entry in the objective
MissingLeaves(qv) == {n \in ReachableLeaves : id_to_ix(n) \notin 1..Len(qv)}

\* the objective with an entry 0 for every leaf the root does not reach
OnReachable(qv) ==
  [i \in 1..Len(leaf_nodes) |->
     IF leaf_nodes[i] \in ReachableLeaves THEN qv[i] ELSE 0]

\* C13: query_tree fails and returns no result when a reachable leaf has no
\* entry in the objective; the leaves no longer reachable need no entry and
\* their entries do not change the result.
C13_MissingObjectiveFails ==
  pc = "queried" =>
    IF MissingLeaves(query_vals) # {}
    THEN query_result = IndexError
    ELSE /\ query_result.ok
         /\ query_result = query_tree(children_ids, OnReachable(query_vals))

\* a pruned tree queried with an objective that lacks the entry of a leaf
\* the root no longer reaches
C13_Witness ==
  /\ pc = "queried"
  /\ query_result.ok
  /\ Len(query_vals) < Len(leaf_nodes)
  /\ LeafSet \ ReachableLeaves # {}
  /\ Cardinality(ReachableLeaves) >= 2

\* the number of options removed so far, over the whole tree
RECURSIVE RemovedIn(_)
RemovedIn(S) ==
  IF S = {} THEN 0
  ELSE LET x == CHOOSE y \in S : TRUE
       IN (Len(children_ids0[x]) - Len(children_ids[x])) + RemovedIn(S \ {x})

RemovedOptions == RemovedIn(InternalSet)

\* the sum, over the root's surviving options, of the plan count of the
\* option's single child, counted from scratch
RECURSIVE SumOfChildren(_)
SumOfChildren(k) ==
  IF k > Len(children_ids[root]) THEN 0
  ELSE PlanCount(children_ids, children_ids[root][k][1]) + SumOfChildren(k + 1)

IsScenario == children_ids0 = ScenarioTree

IsLeavesScenario == children_ids0 = ScenarioLeavesTree

\* C15: on the root with options [A, B] and [C] over leaves with objective
\* 3, 5, 10, get_node_info gives the root 2 plans, query_tree on the tree as
\* built returns value 10 with the leaves [C], and prune with target 1 drops
\* the root's last option [C], leaving the option [A, B] and a root count 1.
C15_LeavesScenario ==
  IsLeavesScenario =>
    /\ pc = "counted" => solution_count[root] = 2
    /\ (pc = "queried" /\ ~SomethingRemoved
                       /\ query_vals = ScenarioObjective) =>
         (query_result.ok /\ query_result.value = 10
                          /\ query_result.nodes = <<4>>)
    /\ (pc \in {"done", "queried"} /\ target_size = 1) =>
         (children_ids[root] = <<<<2, 3>>>> /\ solution_count[root] = 1)

\* the scenario tree was counted, pruned to one plan and then queried
C15_Witness ==
  /\ IsLeavesScenario
  /\ pc = "queried"
  /\ target_size = 1
  /\ query_vals = ScenarioObjective
  /\ children_ids[root] = <<<<2, 3>>>>
  /\ query_result.value = 8

\* a step that ends a call of get_node_info or of query_tree leaves the
\* nodes as they were, and what it returned is what the same call returns on
\* the tree it left; a step that changes a node is a removal inside prune
ReadOnlyStep ==
  /\ pc' \in {"counted", "queried"} =>
       /\ children_ids' = children_ids
       /\ n_districts' = n_districts
  /\ pc' = "counted" =>
       /\ get_node_info(children_ids').solution_count = solution_count'
       /\ get_node_info(children_ids').parent_nodes = parent_nodes'
  /\ pc' = "queried" =>
       query_tree(children_ids', query_vals') = query_result'
  /\ (children_ids' # children_ids \/ n_districts' # n_districts) =>
       (pc = "for" /\ pc' = "for" /\ n_districts' = n_districts)

\* C16: get_node_info and query_tree are read-only: after either call every
\* node's option list, id, region size and root flag are unchanged, so the
\* same call on the same tree returns the same result; only prune changes
\* the tree.
C16_CallsReadOnly == [][ReadOnlyStep]_vars

\* a query answered on a tree that prune had changed before
C16_Witness ==
  /\ pc = "queried"
  /\ query_result.ok
  /\ SomethingRemoved
  /\ Len(children_ids[root]) >= 2

\* the entry of prune sets nothing but the target and the shuffled groups
\* to a value that the state before does not fix; the test of line 67 leads
\* to one state, fixed by the count and the target; and a step inside a
\* pass is the only step the pass can take
OnlyStep ==
  /\ (pc = "counted" /\ pc' = "while") =>
       /\ current_node_prune_size' = 2
       /\ <<children_ids', n_districts', children_ids0', solution_count',
            parent_nodes', n_skinny_nodes', node_ix', n_passes'>>
          = <<children_ids, n_districts, children_ids0, solution_count,
              parent_nodes, n_skinny_nodes, node_ix, n_passes>>
  /\ pc = "while" =>
       /\ <<children_ids', n_districts', children_ids0', solution_count',
            parent_nodes', target_size', nodes_by_size',
            current_node_prune_size', query_vals', query_result'>>
          = <<children_ids, n_districts, children_ids0, solution_count,
              parent_nodes, target_size, nodes_by_size,
              current_node_prune_size, query_vals, query_result>>
       /\ <<pc', node_ix', n_skinny_nodes', n_passes'>>
          = IF solution_count[root] > target_size
            THEN <<"for", 1, 0, n_passes + 1>>
            ELSE <<"done", node_ix, n_skinny_nodes, n_passes>>
  /\ pc \in {"for", "endfor"} =>
       /\ <<target_size', nodes_by_size'>> = <<target_size, nodes_by_size>>
       /\ \A v \in {vars'} :
            ~ENABLED ((ForBreak \/ ForPrune \/ ForSkinny \/ ForEnd \/ PassEnd)
                        /\ vars' # v)

\* C17: two runs of prune on equal trees with equal targets and the same
\* shuffle order of every size group end with the same surviving options at
\* every node: from a state, the target and the shuffled groups fix the next
\* state, so equal starts and equal draws give equal runs.
C17_DeterministicGivenShuffle == [][OnlyStep]_vars

\* a finished run that removed options in a size group of several nodes
C17_Witness ==
  /\ pc = "done"
  /\ RemovedOptions >= 2
  /\ \E s \in DOMAIN nodes_by_size : Len(nodes_by_size[s]) >= 2

\* the sum over the options of a node of the product of its children's
\* counts, a child without an entry in the table counting as cnt
RECURSIVE ProductOver(_, _, _, _)
ProductOver(sc, sample, i, cnt) ==
  IF i > Len(sample) THEN 1
  ELSE Get(sc, sample[i], cnt) * ProductOver(sc, sample, i + 1, cnt)

RECURSIVE SumOverOptions(_, _, _, _)
SumOverOptions(sc, n, k, cnt) ==
  IF k > Len(children_ids[n]) THEN 0
  ELSE ProductOver(sc, children_ids[n][k], 1, cnt)
       + SumOverOptions(sc, n, k + 1, cnt)

\* C18 as stated: get_node_info returns a count for every node reachable
\* from the root, leaves included, with count 1 for a leaf and the sum over
\* options of the product of the children's counts for an internal node.
C18_EveryNodeCounted ==
  pc = "counted" =>
    \A n \in Below(children_ids, root) :
      /\ n \in DOMAIN solution_count
      /\ solution_count[n] =
           IF n \in LeafSet THEN 1 ELSE SumOverOptions(solution_count, n, 1, 0)

\* C18, amended: the table returned by get_node_info has an entry exactly
\* for the internal nodes reachable from the root, each the sum over the
\* node's options of the product of the children's counts with a leaf
\* counting as 1; a leaf has no entry of its own.
C18_InternalNodesCounted ==
  pc = "counted" =>
    /\ DOMAIN solution_count = Below(children_ids, root) \cap InternalSet
    /\ \A n \in DOMAIN solution_count :
         /\ solution_count[n] = SumOverOptions(solution_count, n, 1, 1)
         /\ solution_count[n] = PlanCount(children_ids, n)

\* a counted tree two levels deep whose root has several plans
C18_Witness ==
  /\ pc = "counted"
  /\ solution_count[root] >= 3
  /\ \E n \in InternalSet \ {root} : Len(children_ids[n]) >= 2
  /\ \E n \in LeafSet : n \notin DOMAIN solution_count

\* the nodes whose option list the step changes
EditedNodes == {n \in Nodes : children_ids'[n] # children_ids[n]}

\* the size in turn starts at 2, moves only up and by one, and a node that
\* loses an option has the size in turn while every internal node of a
\* smaller size has one option left
AscendingStep ==
  /\ (pc = "counted" /\ pc' = "while") => current_node_prune_size' = 2
  /\ InPrune =>
       current_node_prune_size' \in
         {current_node_prune_size, current_node_prune_size + 1}
  /\ \A n \in EditedNodes :
       /\ n_districts[n] = current_node_prune_size
       /\ current_node_prune_size' = current_node_prune_size
       /\ \A m \in InternalSet :
            (n_districts[m] >= 2 /\ n_districts[m] < n_districts[n])
              => Len(children_ids[m]) = 1

\* C19: the size groups are processed in ascending region size starting at
\* 2 and never revisited: whenever an option is removed from a node of
\* region size s, every internal node of a region size in [2, s) already
\* has exactly one option.
C19_AscendingSizes == [][AscendingStep]_vars

\* an option was removed at size 3 or above after a smaller node had been
\* pruned down to one option
C19_Witness ==
  /\ pc \in {"for", "endfor", "while", "done"}
  /\ current_node_prune_size >= 3
  /\ \E n \in InternalSet :
       /\ n_districts[n] = current_node_prune_size
       /\ Len(children_ids[n]) < Len(children_ids0[n])
  /\ \E m \in InternalSet :
       /\ n_districts[m] < current_node_prune_size
       /\ Len(children_ids[m]) < Len(children_ids0[m])

\* every node's option list is a prefix of the list it was built with, and
\* the list of an internal node is not empty
OptionsArePrefix ==
  \A n \in Nodes :
    /\ Len(children_ids[n]) <= Len(children_ids0[n])
    /\ children_ids[n] = SubSeq(children_ids0[n], 1, Len(children_ids[n]))
    /\ n \in InternalSet => Len(children_ids[n]) >= 1

\* a step that edits a node drops the last option of its list and leaves
\* the other options as they are
TailRemovalStep ==
  /\ OptionsArePrefix'
  /\ \A n \in EditedNodes :
       /\ Len(children_ids'[n]) = Len(children_ids[n]) - 1
       /\ \A k \in 1..Len(children_ids'[n]) :
            children_ids'[n][k] = children_ids[n][k]

\* C20: every removal drops the last option of the node's current list, so
\* in every reachable state each internal node's option list is a non-empty
\* prefix of its original list: the order of the surviving options is kept,
\* their number never grows, and the children inside them are unchanged.
C20_TailRemoval == [][TailRemovalStep]_vars

\* a node that lost two options, one after the other
C20_Witness ==
  /\ pc = "done"
  /\ \E n \in InternalSet :
       /\ Len(children_ids[n]) + 2 <= Len(children_ids0[n])
       /\ children_ids[n] = <<children_ids0[n][1]>>
  /\ \E m \in InternalSet : children_ids[m] = children_ids0[m]

\* the largest objective sum over a non-empty set of plans
BestValue(qv, PS) ==
  LET sums == {SumOfValues(qv, P) : P \in PS}
  IN CHOOSE m \in sums : \A x \in sums : x <= m

\* the best value below option k of node n
OptionBest(n, k) ==
  BestValue(query_vals, OptionPlans(children_ids, children_ids[n][k], 1))

\* C21: when several options of a node attain the same maximum value, the
\* node's result is the first such option in list order: at every internal
\* node the leaves returned form a plan of an option whose best value is the
\* value returned, every earlier option is strictly worse and no later one
\* is better, so the returned leaf set is fixed by the tree and the
\* objective.
C21_FirstMaximalOption ==
  (pc = "queried" /\ query_result.ok) =>
    \A n \in InternalSet \cap Below(children_ids, root) :
      LET r == IF n = root THEN query_result
               ELSE recursive_query(children_ids, query_vals, n)
          S == {r.nodes[i] : i \in 1..Len(r.nodes)}
      IN \E k \in 1..Len(children_ids[n]) :
           /\ S \in OptionPlans(children_ids, children_ids[n][k], 1)
           /\ SumOfValues(query_vals, S) = r.value
           /\ \A j \in 1..Len(children_ids[n]) :
                IF j < k THEN OptionBest(n, j) < r.value
                ELSE OptionBest(n, j) <= r.value

\* two options of the root tie at the maximum, below them a node whose
\* options tie as well
C21_Witness ==
  /\ pc = "queried"
  /\ query_result.ok
  /\ Len(children_ids[root]) >= 2
  /\ OptionBest(root, 1) = query_result.value
  /\ OptionBest(root, 2) = query_result.value
  /\ \E n \in InternalSet \ {root} :
       /\ Len(children_ids[n]) >= 2
       /\ OptionBest(n, 1) = OptionBest(n, 2)

\* a step removes an option only from a state where the root's count is
\* above the target, and from a state of prune where it is not above the
\* target no step changes the tree or the count table
StopStep ==
  /\ EditedNodes # {} =>
       (pc = "for" /\ solution_count[root] > target_size
                   /\ PlanCount(children_ids, root) > target_size)
  /\ (InPrune /\ solution_count[root] <= target_size) =>
       /\ children_ids' = children_ids
       /\ solution_count' = solution_count
       /\ pc' \in {"endfor", "while", "done"}

\* C22: prune removes an option only while the root's count is above the
\* target; once the root's count is at or below the target, no option is
\* removed from any node, in the same pass or in a later one.
C22_StopsAtTarget == [][StopStep]_vars

\* the run ended in the middle of a pass, before a node that still has
\* options to lose
C22_Witness ==
  /\ pc = "done"
  /\ SomethingRemoved
  /\ node_ix <= Len(node_list)
  /\ \E i \in node_ix..Len(node_list) : Len(children_ids[node_list[i]]) >= 2

\* a step that edits the tree leaves only plans the tree had before it, so
\* the tree prune returns has only plans of the tree as built, and a query
\* of a tree that lost options answers with a value that is at most the
\* value of the same query on the tree as built
DiscardStep ==
  /\ children_ids' # children_ids =>
       Plans(children_ids', root) \subseteq Plans(children_ids, root)
  /\ pc' = "done" =>
       Plans(children_ids', root) \subseteq Plans(children_ids0, root)
  /\ (pc' = "queried" /\ query_result'.ok
                        /\ children_ids' # children_ids0) =>
       LET before == query_tree(children_ids0, query_vals')
       IN before.ok => query_result'.value <= before.value

\* C23: pruning only discards plans: every complete plan of the tree after
\* prune was a plan of the tree before prune, hence for any objective the
\* value query_tree returns on the pruned tree is at most the value it
\* returns on the tree before pruning.
C23_PruningOnlyDiscards == [][DiscardStep]_vars

\* a query on a pruned tree that lost the best plan of the tree as built
C23_Witness ==
  /\ pc = "queried"
  /\ query_result.ok
  /\ SomethingRemoved
  /\ Cardinality(Plans(children_ids, root)) >= 2
  /\ query_tree(children_ids0, query_vals).ok
  /\ query_result.value < query_tree(children_ids0, query_vals).value

\* every child has a strictly smaller region size than its parent
ChildrenAreSmaller ==
  \A a \in Places(children_ids0) :
    n_districts[ChildAt(children_ids0, a)] < n_districts[a[1]]

\* a step that removes an option edits a node the root still reaches and
\* lowers the root's plan count, in the table and counted from scratch
ReachableRemovalStep ==
  \A n \in EditedNodes :
    /\ n \in Below(children_ids, root)
    /\ solution_count'[root] < solution_count[root]
    /\ PlanCount(children_ids', root) < PlanCount(children_ids, root)

\* C24: in a well-formed tree where every child has a strictly smaller
\* region size than its parent, every option removal of prune acts on a
\* node still reachable from the root and strictly decreases the root's
\* plan count: no removal is spent on a subtree already detached.
C24_RemovalsAreReachable ==
  [][ChildrenAreSmaller => ReachableRemovalStep]_vars

\* both branches lost an option while reachable, then the root detached one
C24_Witness ==
  /\ ChildrenAreSmaller
  /\ pc = "done"
  /\ Len(children_ids[root]) < Len(children_ids0[root])
  /\ \E n \in InternalSet \ Below(children_ids, root) :
       Len(children_ids[n]) < Len(children_ids0[n])
  /\ RemovedOptions >= 3

====
